---------------------------- MODULE Spec2Model ----------------------------
(***************************************************************************)
(* Lead categorizer (src/app.py): URL normalisation, journey parsing,      *)
(* pattern matching, priority resolution, the batch loop of                *)
(* categorize_leads, the construction of the category map from the         *)
(* mapping rows, and the Streamlit session state of main().                *)
(*                                                                         *)
(* A Python str is modelled as a sequence of one-character strings, so     *)
(* that the regular expressions, str.lower, str.strip, the substring test  *)
(* and urllib.parse.urlparse work on characters as they do in the program. *)
(***************************************************************************)
EXTENDS Integers, Sequences, FiniteSets, TLC

VARIABLES
    \* categorize_leads(leads_df, priority_list, category_map, column_name)
    leads, priority_list, category_map, pc, idx, row, item_i,
    matched_categories, categories,
    \* normalize_url(url) called on its own
    url, norm_result, norm_pc,
    \* parse_journey(row) called on its own
    items, style, journey, url_list, parse_pc,
    \* main(): building category_map from mapping.csv
    mapping_rows, zipped_map, lowered_map, map_pc,
    \* main(): st.session_state and the widgets of the page
    master_data, file_hash, pending_changes, current_filter_value,
    leads_file, selectbox_state, editor_state

catVars == <<leads, priority_list, category_map, pc, idx, row, item_i,
             matched_categories, categories>>
normVars == <<url, norm_result, norm_pc>>
parseVars == <<items, style, journey, url_list, parse_pc>>
mapVars == <<mapping_rows, zipped_map, lowered_map, map_pc>>
appVars == <<master_data, file_hash, pending_changes, current_filter_value,
             leads_file, selectbox_state, editor_state>>
vars == <<catVars, normVars, parseVars, mapVars, appVars>>

-----------------------------------------------------------------------------
(* Characters and Python str operations *)

LowerLetters == <<"a", "b", "c", "d", "e", "f", "g", "h", "i", "j", "k", "l", "m", "n", "o", "p", "q", "r", "s", "t", "u", "v", "w", "x", "y", "z">>
UpperLetters == <<"A", "B", "C", "D", "E", "F", "G", "H", "I", "J", "K", "L", "M", "N", "O", "P", "Q", "R", "S", "T", "U", "V", "W", "X", "Y", "Z">>
DigitChars == {"0", "1", "2", "3", "4", "5", "6", "7", "8", "9"}

Range(s) == {s[k] : k \in 1..Len(s)}

LowerSet == Range(LowerLetters)
UpperSet == Range(UpperLetters)

\* the characters str.strip() removes and the regex class \s matches
Whitespace == {" ", "\t", "\n", "\r", "\f"}

Min(S) == CHOOSE m \in S : \A n \in S : m <= n

\* str.lower() on one character
LowerChar(c) ==
    IF c \in UpperSet
    THEN LowerLetters[CHOOSE k \in 1..26 : UpperLetters[k] = c]
    ELSE c

\* str.lower()
LowerStr(s) == [k \in 1..Len(s) |-> LowerChar(s[k])]

\* str.lstrip(chars)
LStrip(s, chars) ==
    IF \A k \in 1..Len(s) : s[k] \in chars
    THEN <<>>
    ELSE SubSeq(s, Min({k \in 1..Len(s) : s[k] \notin chars}), Len(s))

\* str.strip(): leading and trailing whitespace removed
Strip(s) ==
    IF \A k \in 1..Len(s) : s[k] \in Whitespace
    THEN <<>>
    ELSE LET keep == {k \in 1..Len(s) : s[k] \notin Whitespace}
         IN  SubSeq(s, Min(keep), CHOOSE m \in keep : \A n \in keep : n <= m)

\* str.find(c, start): the first position >= start holding character c, 0 if none
\* (positions are 1-based here, so Python's -1 is 0)
Find(s, c, start) ==
    IF \E k \in start..Len(s) : s[k] = c
    THEN Min({k \in start..Len(s) : s[k] = c})
    ELSE 0

\* str.rfind(c)
RFind(s, c) ==
    IF \E k \in 1..Len(s) : s[k] = c
    THEN CHOOSE m \in 1..Len(s) : s[m] = c /\ \A n \in (m+1)..Len(s) : s[n] # c
    ELSE 0

\* whether the text t stands in s at position p
At(s, p, t) == p >= 1 /\ p + Len(t) - 1 <= Len(s) /\ SubSeq(s, p, p + Len(t) - 1) = t

\* Python's  sub in s
Contains(sub, s) == \E p \in 1..(Len(s) - Len(sub) + 1) : At(s, p, sub)

-----------------------------------------------------------------------------
(* urllib.parse.urlparse, as normalize_url calls it *)

\* a raised ValueError carries no components
ValueError == [raised |-> TRUE, scheme |-> <<>>, netloc |-> <<>>, path |-> <<>>,
               query |-> <<>>, fragment |-> <<>>]

scheme_chars == LowerSet \cup UpperSet \cup DigitChars \cup {"+", "-", "."}

uses_params == {<<>>, <<"f", "t", "p">>, <<"h", "d", "l">>, <<"p", "r", "o", "s", "p", "e", "r", "o">>, <<"h", "t", "t", "p">>, <<"i", "m", "a", "p">>,
                <<"h", "t", "t", "p", "s">>, <<"s", "h", "t", "t", "p">>, <<"r", "t", "s", "p">>, <<"r", "t", "s", "p", "s">>, <<"r", "t", "s", "p", "u">>, <<"s", "i", "p">>,
                <<"s", "i", "p", "s">>, <<"m", "m", "s">>, <<"s", "f", "t", "p">>, <<"t", "e", "l">>}

\* the control characters and the space that urlsplit strips on the left
C0_CONTROL_OR_SPACE == Whitespace

\* the characters urlsplit removes wherever they stand
UNSAFE_URL_BYTES_TO_REMOVE == {"\t", "\r", "\n"}

RemoveUnsafe(s) == SelectSeq(s, LAMBDA c : c \notin UNSAFE_URL_BYTES_TO_REMOVE)

\* _splitnetloc(url, 2): the end of the domain part is the first of / ? #
splitnetloc(u) ==
    LET delims == {k \in 3..Len(u) : u[k] \in {"/", "?", "#"}}
        delim == IF delims = {} THEN Len(u) + 1 ELSE Min(delims)
    IN  [netloc |-> SubSeq(u, 3, delim - 1), rest |-> SubSeq(u, delim, Len(u))]

\* _check_bracketed_host: the bracketed host must be an IPv6 (or IPvFuture)
\* literal; of the hosts the model's characters can spell, these are
ValidBracketedHosts == {<<":", ":", "1">>, <<":", ":">>}

bracketed_host(netloc) ==
    LET a == Find(netloc, "[", 1)
        b == Find(netloc, "]", a + 1)
    IN  SubSeq(netloc, a + 1, IF b = 0 THEN Len(netloc) ELSE b - 1)

\* whether urlsplit raises ValueError on this netloc
netloc_raises(netloc) ==
    LET open == "[" \in Range(netloc)
        close == "]" \in Range(netloc)
    IN  \/ open /\ ~close
        \/ close /\ ~open
        \/ open /\ close /\ bracketed_host(netloc) \notin ValidBracketedHosts

\* the scheme test of urlsplit: i = url.find(':') > 0, url[0] a letter and
\* url[:i] made of scheme characters
has_scheme(u) ==
    LET i == Find(u, ":", 1)
    IN  /\ i > 1
        /\ u[1] \in LowerSet \cup UpperSet
        /\ \A k \in 1..(i - 1) : u[k] \in scheme_chars

\* str.split(c, 1): <<before, after>> the first c
SplitFirst(s, c) ==
    LET i == Find(s, c, 1)
    IN  IF i = 0 THEN <<s, <<>> >> ELSE <<SubSeq(s, 1, i - 1), SubSeq(s, i + 1, Len(s))>>

urlsplit(raw) ==
    LET u0 == RemoveUnsafe(LStrip(raw, C0_CONTROL_OR_SPACE))
        i == Find(u0, ":", 1)
        sch == has_scheme(u0)
        scheme == IF sch THEN LowerStr(SubSeq(u0, 1, i - 1)) ELSE <<>>
        u1 == IF sch THEN SubSeq(u0, i + 1, Len(u0)) ELSE u0
        net == At(u1, 1, <<"/", "/">>)
        netloc == IF net THEN splitnetloc(u1).netloc ELSE <<>>
        u2 == IF net THEN splitnetloc(u1).rest ELSE u1
        frag == SplitFirst(u2, "#")
        qry == SplitFirst(frag[1], "?")
    IN  IF net /\ netloc_raises(netloc)
        THEN ValueError
        ELSE [raised |-> FALSE, scheme |-> scheme, netloc |-> netloc, path |-> qry[1],
              query |-> qry[2], fragment |-> frag[2]]

\* _splitparams(url): the ;parameters of the last path segment
splitparams(u) ==
    LET i == IF "/" \in Range(u) THEN Find(u, ";", RFind(u, "/")) ELSE Find(u, ";", 1)
    IN  IF i = 0 THEN <<u, <<>> >> ELSE <<SubSeq(u, 1, i - 1), SubSeq(u, i + 1, Len(u))>>

urlparse(raw) ==
    LET sp == urlsplit(raw)
    IN  IF sp.raised
        THEN ValueError
        ELSE IF sp.scheme \in uses_params /\ ";" \in Range(sp.path)
             THEN [sp EXCEPT !.path = splitparams(sp.path)[1]]
             ELSE sp

-----------------------------------------------------------------------------
(* normalize_url *)

\* a faulty variant of normalize_url: the text is not lower-cased
normalize_url_no_lower(u) ==
    LET parsed == urlparse(Strip(u))
    IN  [raised |-> parsed.raised, path |-> parsed.path]

\* normalize_url(url): url.lower().strip(), then the path of urlparse; the
\* ValueError of urlparse is not caught and leaves the function
normalize_url(u) ==
    LET parsed == urlparse(Strip(LowerStr(u)))
    IN  [raised |-> parsed.raised, path |-> parsed.path]

-----------------------------------------------------------------------------
(* parse_journey: re.findall of the two patterns *)

\* the two patterns of parse_journey
FULL_URL == "https?://[^\\s,\\]]+"
PATH_ONLY == "/[a-zA-Z0-9\\-\\/_]+"

\* [^\s,\]] of the full-URL pattern
UrlBodyChar(c) == c \notin Whitespace \cup {",", "]"}

\* [a-zA-Z0-9\-\/_] of the path pattern
PathBodyChar(c) == c \in LowerSet \cup UpperSet \cup DigitChars \cup {"-", "/", "_"}

\* the character class that ends the pattern
BodyChar(pattern, c) == IF pattern = FULL_URL THEN UrlBodyChar(c) ELSE PathBodyChar(c)

\* the greedy + : the end (exclusive) of the run of class characters that starts at q
RunEnd(pattern, s, q) ==
    Min({e \in q..(Len(s) + 1) : e = Len(s) + 1 \/ ~BodyChar(pattern, s[e])})

\* https?://[^\s,\]]+ tried at position p: the end (exclusive) of the match, 0 if none
MatchUrlAt(s, p) ==
    LET body == IF At(s, p, <<"h", "t", "t", "p", "s", ":", "/", "/">>) THEN p + 8
                ELSE IF At(s, p, <<"h", "t", "t", "p", ":", "/", "/">>) THEN p + 7
                ELSE 0
    IN  IF body > 0 /\ body <= Len(s) /\ UrlBodyChar(s[body])
        THEN RunEnd(FULL_URL, s, body)
        ELSE 0

\* /[a-zA-Z0-9\-\/_]+ tried at position p
MatchPathAt(s, p) ==
    IF At(s, p, <<"/">>) /\ p + 1 <= Len(s) /\ PathBodyChar(s[p + 1])
    THEN RunEnd(PATH_ONLY, s, p + 1)
    ELSE 0

MatchAt(pattern, s, p) ==
    IF pattern = FULL_URL THEN MatchUrlAt(s, p) ELSE MatchPathAt(s, p)

\* re.findall(pattern, s): the leftmost matches from position p on, none overlapping
RECURSIVE FindAll(_, _, _)
FindAll(pattern, s, p) ==
    IF p > Len(s) THEN <<>>
    ELSE LET e == MatchAt(pattern, s, p)
         IN  IF e > 0
             THEN <<SubSeq(s, p, e - 1)>> \o FindAll(pattern, s, e)
             ELSE FindAll(pattern, s, p + 1)

\* a faulty variant of parse_journey: the paths are added to the full URLs
parse_journey_both(text) ==
    FindAll(FULL_URL, text, 1) \o FindAll(PATH_ONLY, text, 1)

\* parse_journey(row): the full URLs of str(row), and only if there are none its paths
parse_journey(text) ==
    LET full == FindAll(FULL_URL, text, 1)
    IN  IF full # <<>> THEN full ELSE FindAll(PATH_ONLY, text, 1)

-----------------------------------------------------------------------------
(* categorize_leads: matching and resolution *)

all_lead_categories_options ==
    << "Neighborhood: Downtown Fort Lauderdale",
       "Neighborhood: Las Olas Isles",
       "Neighborhood: Bermuda Riviera",
       "Neighborhood: Lauderdale Harbours",
       "Neighborhood: Fort Lauderdale Beach",
       "Neighborhood: Coral Ridge",
       "Neighborhood: Rio Vista",
       "Neighborhood: Victoria Park",
       "Neighborhood: Tarpon River",
       "Neighborhood: Lake Ridge",
       "Condo: NuRiver Landing Condo",
       "Condo: Watergarden",
       "Condo: Symphony",
       "Condo: Las Olas Grand",
       "Condo: 100 Las Olas",
       "Condo: Las Olas By The River",
       "Condo: Las Olas River House",
       "Condo: Strada",
       "Condo: Waverly",
       "Condo: NuRiver Landing",
       "New Construction",
       "Waterfront Homes",
       "High Rise Riverfront Condos",
       "other",
       "BUY",
       "SELL",
       "GENERAL" >>

\* a faulty variant of the test of line 104: the key must begin the item
KeyMatchesPrefixOnly(key, item) == At(LowerStr(item), 1, LowerStr(key))

\* the test of line 104:  key.lower() in item.lower()
KeyMatches(key, item) == Contains(LowerStr(key), LowerStr(item))

\* for key in category_map: if <match>: matched_categories.add(category_map[key])
\* (a dict is the sequence of its <<key, value>> entries in insertion order)
RECURSIVE AddMatches(_, _, _)
AddMatches(matched, item, map) ==
    IF map = <<>> THEN matched
    ELSE AddMatches(IF KeyMatches(Head(map)[1], item)
                    THEN matched \cup {Head(map)[2]}
                    ELSE matched,
                    item, Tail(map))

\* a faulty variant of lines 107-112: the loop has no break, the last entry
\* of priority_list that is in the matched set wins
ResolveNoBreak(matched, priority) ==
    IF \E k \in 1..Len(priority) : priority[k] \in matched
    THEN priority[CHOOSE k \in 1..Len(priority) :
                     /\ priority[k] \in matched
                     /\ \A j \in (k+1)..Len(priority) : priority[j] \notin matched]
    ELSE "GENERAL"

\* a faulty variant of lines 107-112: without an entry of priority_list in
\* the matched set, some matched category is taken instead of "GENERAL"
ResolveAnyMatched(matched, priority) ==
    IF \E k \in 1..Len(priority) : priority[k] \in matched
    THEN priority[Min({k \in 1..Len(priority) : priority[k] \in matched})]
    ELSE IF matched # {} THEN CHOOSE c \in matched : TRUE ELSE "GENERAL"

\* lines 107-112: final_category is "GENERAL" unless an entry of
\* priority_list, scanned in order from position k, is in the matched set
RECURSIVE ResolveFrom(_, _, _)
ResolveFrom(matched, priority, k) ==
    IF k > Len(priority) THEN "GENERAL"
    ELSE IF priority[k] \in matched THEN priority[k]
    ELSE ResolveFrom(matched, priority, k + 1)
ResolveCategory(matched, priority) == ResolveFrom(matched, priority, 1)

-----------------------------------------------------------------------------
(* categorize_leads: the inputs of the model *)

\* the greatest number of records of a dataset
MaxLeads == 2

\* journey cells as str(row) renders them: lists of full URLs, lists of bare
\* paths, free text, an IPv6 literal, a missing value
JourneyPool ==
    { <<"[", "'", "h", "t", "t", "p", "s", ":", "/", "/", "s", "i", "t", "e", ".", "c", "o", "m", "/", "a", "'", ",", "'", "h", "t", "t", "p", "s", ":", "/", "/", "s", "i", "t", "e", ".", "c", "o", "m", "/", "b", "'", "]">>,
      <<"[", "'", "/", "a", "'", ",", "'", "/", "b", "'", "]">>,
      <<"[", "'", "/", "b", "'", ",", "'", "/", "a", "'", "]">>,
      <<"n", "o", " ", "u", "r", "l", "s", " ", "h", "e", "r", "e">>,
      <<"[", "'", "h", "t", "t", "p", "s", ":", "/", "/", "[", ":", ":", "1", "]", "/", "a", "'", "]">>,
      <<"[", "'", "/", "C", "O", "N", "D", "O", "-", "X", "/", "u", "n", "i", "t", "1", "'", "]">>,
      <<"[", "'", "h", "t", "t", "p", "s", ":", "/", "/", "s", "i", "t", "e", ".", "c", "o", "m", "/", "l", "i", "s", "t", "i", "n", "g", "s", "/", "c", "o", "n", "d", "o", "-", "x", "-", "1", "2", "3", "?", "r", "e", "f", "=", "/", "b", "'", "]">>,
      <<"n", "a", "n">> }

\* category maps: lower-cased keys as main() builds them, keys with capitals,
\* a category outside the priority vocabulary, and the empty map
CategoryMaps ==
    { << <<<<"c", "o", "n", "d", "o", "-", "x">>, "Condo: Strada">>, <<<<"/", "a">>, "BUY">>, <<<<"/", "b">>, "SELL">> >>,
      << <<<<"C", "o", "n", "d", "o", "-", "X">>, "Condo: Strada">>, <<<<"u", "n", "i", "t">>, "Rental">>, <<<<"/", "B">>, "BUY">> >>,
      << >> }

\* priority lists: the vocabulary of the application and a shorter one in
\* another order; each holds the fallback "GENERAL"
PriorityLists == { all_lead_categories_options, <<"SELL", "BUY", "GENERAL">> }

Datasets == UNION {[1..n -> JourneyPool] : n \in 0..MaxLeads}

-----------------------------------------------------------------------------
(* categorize_leads as one computation: the labels of a dataset *)

\* F applied to the value of v, which is computed once
Bind(v, F(_)) == CHOOSE r \in {F(x) : x \in {v}} : TRUE

\* lines 101-105 for the tokens from position k on: the matched set, or raised
RECURSIVE MatchTokens(_, _, _, _)
MatchTokens(matched, tokens, k, map) ==
    IF k > Len(tokens) THEN [raised |-> FALSE, matched |-> matched]
    ELSE Bind(normalize_url(tokens[k]), LAMBDA n :
            IF n.raised THEN [raised |-> TRUE, matched |-> matched]
            ELSE Bind(AddMatches(matched, n.path, map), LAMBDA added :
                    MatchTokens(added, tokens, k + 1, map)))

\* lines 98-114 for one record whose matched set starts as `carried`
ClassifyRecord(carried, text, priority, map) ==
    Bind(parse_journey(text), LAMBDA tokens :
        Bind(MatchTokens(carried, tokens, 1, map), LAMBDA m :
            [raised |-> m.raised, matched |-> m.matched,
             category |-> ResolveCategory(m.matched, priority)]))

-----------------------------------------------------------------------------
(* categorize_leads as the program runs it, record by record and token by token *)

IdleCat ==
    /\ leads = <<>> /\ priority_list = <<>> /\ category_map = <<>>
    /\ pc = "idle" /\ idx = 0 /\ row = <<>> /\ item_i = 0
    /\ matched_categories = {} /\ categories = <<>>

IdleNorm == url = <<>> /\ norm_result = <<>> /\ norm_pc = "idle"

IdleParse ==
    /\ items = <<>> /\ style = "idle" /\ journey = <<>>
    /\ url_list = <<>> /\ parse_pc = "idle"

IdleMap ==
    /\ mapping_rows = <<>> /\ zipped_map = <<>> /\ lowered_map = <<>>
    /\ map_pc = "idle"

IdleApp ==
    /\ master_data = "idle" /\ file_hash = "idle" /\ pending_changes = "idle"
    /\ current_filter_value = "idle" /\ leads_file = "idle"
    /\ selectbox_state = "idle" /\ editor_state = "idle"

\* the call: lines 94-95
Init ==
    /\ leads \in Datasets
    /\ priority_list \in PriorityLists
    /\ category_map \in CategoryMaps
    /\ pc = "for_row"
    /\ idx = 1
    /\ row = <<>>
    /\ item_i = 1
    /\ matched_categories = {}
    /\ categories = <<>>
    /\ IdleNorm /\ IdleParse /\ IdleMap /\ IdleApp

\* lines 97-99: the next record is parsed and the matched set cleared
ParseRow ==
    /\ pc = "for_row"
    /\ idx <= Len(leads)
    /\ row' = parse_journey(leads[idx])
    /\ matched_categories' = {}
    /\ item_i' = 1
    /\ pc' = "for_item"
    /\ UNCHANGED <<leads, priority_list, category_map, idx, categories>>
    /\ UNCHANGED <<normVars, parseVars, mapVars, appVars>>

\* lines 101-105: one token is normalised and matched against every key
MatchItem ==
    /\ pc = "for_item"
    /\ item_i <= Len(row)
    /\ ~normalize_url(row[item_i]).raised
    /\ matched_categories' =
           AddMatches(matched_categories, normalize_url(row[item_i]).path, category_map)
    /\ item_i' = item_i + 1
    /\ UNCHANGED <<leads, priority_list, category_map, pc, idx, row, categories>>
    /\ UNCHANGED <<normVars, parseVars, mapVars, appVars>>

\* line 102: urlparse raises ValueError, which nothing catches: the call ends
\* without a result
RaiseValueError ==
    /\ pc = "for_item"
    /\ item_i <= Len(row)
    /\ normalize_url(row[item_i]).raised
    /\ pc' = "raised"
    /\ UNCHANGED <<leads, priority_list, category_map, idx, row, item_i,
                   matched_categories, categories>>
    /\ UNCHANGED <<normVars, parseVars, mapVars, appVars>>

\* lines 107-114: the record's category is resolved and appended
ResolveRow ==
    /\ pc = "for_item"
    /\ item_i > Len(row)
    /\ categories' = Append(categories, ResolveCategory(matched_categories, priority_list))
    /\ idx' = idx + 1
    /\ pc' = "for_row"
    /\ UNCHANGED <<leads, priority_list, category_map, row, item_i, matched_categories>>
    /\ UNCHANGED <<normVars, parseVars, mapVars, appVars>>

\* line 115
Return ==
    /\ pc = "for_row"
    /\ idx > Len(leads)
    /\ pc' = "returned"
    /\ UNCHANGED <<leads, priority_list, category_map, idx, row, item_i,
                   matched_categories, categories>>
    /\ UNCHANGED <<normVars, parseVars, mapVars, appVars>>

Next == ParseRow \/ MatchItem \/ RaiseValueError \/ ResolveRow \/ Return

Spec == Init /\ [][Next]_vars

-----------------------------------------------------------------------------
(* Properties of categorize_leads *)

\* the pattern p occurs somewhere in the token t: t = before \o p \o after
OccursAnywhere(p, t) ==
    \E before \in 0..Len(t) :
        /\ before + Len(p) <= Len(t)
        /\ \A k \in 1..Len(p) : t[before + k] = p[k]

\* the categories of the map patterns that occur in the token, both lower-cased
SubstringCategories(token, map) ==
    {map[k][2] : k \in {n \in 1..Len(map) :
                           OccursAnywhere(LowerStr(map[n][1]), LowerStr(token))}}

\* the normalised tokens of a journey, as a set: their order is forgotten
NormalizedTokens(text) ==
    {normalize_url(t).path : t \in Range(parse_journey(text))}

\* the matched-category set of a journey, from its set of tokens
MatchedOf(text, map) ==
    UNION {SubstringCategories(t, map) : t \in NormalizedTokens(text)}

\* the first entry of the priority list that is in S, "GENERAL" when none is
FirstByPriority(S, priority) ==
    IF \E k \in 1..Len(priority) : priority[k] \in S
    THEN priority[Min({k \in 1..Len(priority) : priority[k] \in S})]
    ELSE "GENERAL"

\* two journeys hold the same tokens, perhaps in another order
SameTokens(a, b) ==
    LET ta == parse_journey(a)
        tb == parse_journey(b)
    IN  /\ Len(ta) = Len(tb)
        /\ \A t \in Range(ta) \cup Range(tb) :
              Cardinality({k \in 1..Len(ta) : ta[k] = t})
                  = Cardinality({k \in 1..Len(tb) : tb[k] = t})

\* the record at position i, classified alone
LabelAlone(i) == ClassifyRecord({}, leads[i], priority_list, category_map).category

\* C1: every call of categorize_leads returns, with exactly one label per
\* record, in input order, the label at position i being the one record i
\* gets when classified alone.
C1_OneLabelPerRecord ==
    pc \in {"returned", "raised"} =>
        /\ pc = "returned"
        /\ Len(categories) = Len(leads)
        /\ \A i \in 1..Len(leads) : categories[i] = LabelAlone(i)

\* C1, for the calls that return: one label per record, each the label of
\* the record classified alone (nothing is carried over between records).
C1_WhenReturned ==
    pc = "returned" =>
        /\ Len(categories) = Len(leads)
        /\ \A i \in 1..Len(leads) : categories[i] = LabelAlone(i)

\* C2: every category categorize_leads assigns is an entry of the priority
\* list it was given (which holds "GENERAL"), whatever categories the map
\* names.
C2_CategoryInVocabulary ==
    \A i \in 1..Len(categories) : categories[i] \in Range(priority_list)

\* C2 witness: a record was labelled "GENERAL" although its tokens matched
\* categories, none of them in the priority list.
C2_Witness ==
    /\ pc = "for_row" /\ idx > 1
    /\ matched_categories # {}
    /\ matched_categories \cap Range(priority_list) = {}
    /\ categories[idx - 1] = "GENERAL"

\* C3: the category of a record is the first entry of the priority list
\* that is in the record's matched set, "GENERAL" when none is; two
\* records with the same tokens in different orders get the same category.
C3_FirstByPriority ==
    /\ \A i \in 1..Len(categories) :
          categories[i] = FirstByPriority(MatchedOf(leads[i], category_map), priority_list)
    /\ \A i, j \in 1..Len(categories) :
          SameTokens(leads[i], leads[j]) => categories[i] = categories[j]

\* C3 witness: two records hold the same tokens in different orders, the
\* tokens match two categories of the priority list, and both are labelled.
C3_Witness ==
    /\ Len(categories) = 2
    /\ parse_journey(leads[1]) # parse_journey(leads[2])
    /\ SameTokens(leads[1], leads[2])
    /\ Cardinality(MatchedOf(leads[1], category_map) \cap Range(priority_list)) >= 2

\* C4: classification never raises, and a journey without a token gets "GENERAL".
C4_NeverRaises ==
    /\ pc # "raised"
    /\ \A i \in 1..Len(categories) :
          parse_journey(leads[i]) = <<>> => categories[i] = "GENERAL"

\* C8: the matched set holds, for the tokens matched so far, exactly the
\* categories of the map patterns that occur in a token as a substring,
\* both lower-cased; the pattern "Condo-X" matches the token "/CONDO-X/unit1".
C8_SubstringContributions ==
    pc = "for_item" =>
        /\ matched_categories =
              UNION {SubstringCategories(normalize_url(row[j]).path, category_map) :
                        j \in 1..(item_i - 1)}
        /\ \A j \in 1..(item_i - 1), n \in 1..Len(category_map) :
              (row[j] = <<"/", "C", "O", "N", "D", "O", "-", "X", "/", "u", "n", "i", "t", "1">> /\ category_map[n][1] = <<"C", "o", "n", "d", "o", "-", "X">>)
                  => category_map[n][2] \in matched_categories

\* C8 witness: the token "/CONDO-X/unit1" has been matched against a map
\* with the pattern "Condo-X", which occurs in it after the first character.
C8_Witness ==
    /\ pc = "for_item" /\ item_i = 2
    /\ row[1] = <<"/", "C", "O", "N", "D", "O", "-", "X", "/", "u", "n", "i", "t", "1">>
    /\ \E n \in 1..Len(category_map) :
          /\ category_map[n][1] = <<"C", "o", "n", "d", "o", "-", "X">>
          /\ category_map[n][2] \in matched_categories
          /\ ~At(LowerStr(row[1]), 1, LowerStr(category_map[n][1]))

-----------------------------------------------------------------------------
(* normalize_url on its own: every short string over the characters that   *)
(* decide its branches, and the examples of its documentation              *)

\* the greatest length of an enumerated input of normalize_url
MaxUrlLen == 4

NormAlphabet == {"/", "a", "A", ":", "?", "#", ";", " ", "\t"}

ExampleUrls == { <<"/", "F", "o", "o", "/", "B", "a", "r">>, <<"H", "T", "T", "P", "S", ":", "/", "/", "E", "x", "a", "m", "p", "l", "e", ".", "c", "o", "m", "/", "F", "o", "o", "/", "B", "a", "r", "?", "x", "=", "1">> }

NormInputs == UNION {[1..n -> NormAlphabet] : n \in 0..MaxUrlLen} \cup ExampleUrls

InitNormalize ==
    /\ url \in NormInputs
    /\ norm_result = [raised |-> FALSE, path |-> <<>>]
    /\ norm_pc = "call"
    /\ IdleCat /\ IdleParse /\ IdleMap /\ IdleApp

\* lines 53-55
Normalize ==
    /\ norm_pc = "call"
    /\ norm_result' = normalize_url(url)
    /\ norm_pc' = "done"
    /\ UNCHANGED <<url, catVars, parseVars, mapVars, appVars>>

NextNormalize == Normalize

SpecNormalize == InitNormalize /\ [][NextNormalize]_vars

\* the input, lower-cased and trimmed
Trimmed(u) == Strip(LowerStr(u))

\* urlparse finds neither a scheme nor a host in the trimmed input
NoSchemeOrHost(u) ==
    /\ ~urlparse(Trimmed(u)).raised
    /\ urlparse(Trimmed(u)).scheme = <<>>
    /\ urlparse(Trimmed(u)).netloc = <<>>

NothingToSplitOff(u) ==
    /\ Range(Trimmed(u)) \cap {"?", "#", ";", "\t", "\n", "\r"} = {}
    /\ ~At(Trimmed(u), 1, <<"/", "/">>)

-----------------------------------------------------------------------------
(* parse_journey on its own: journeys rendered as lists of quoted entries, *)
(* and free text                                                           *)

\* the greatest number of entries of a rendered journey list
MaxItems == 2

FullUrlItems == { <<"h", "t", "t", "p", "s", ":", "/", "/", "s", "i", "t", "e", ".", "c", "o", "m", "/", "a">>, <<"h", "t", "t", "p", "s", ":", "/", "/", "s", "i", "t", "e", ".", "c", "o", "m", "/", "b">>, <<"h", "t", "t", "p", ":", "/", "/", "s", ".", "c", "o", "/", "A", "/", "b", "_", "1">> }
BarePathItems == { <<"/", "a">>, <<"/", "b">>, <<"/", "A", "/", "b", "-", "1">> }
JourneyItems == FullUrlItems \cup BarePathItems

\* ['x','y'],  ['x', 'y'] (Python's repr of a list)  and  ["x", "y"]
ListStyles == {"compact", "repr", "json"}

FreeTexts == { <<"n", "o", " ", "u", "r", "l", "s", " ", "h", "e", "r", "e">>, <<"n", "a", "n">>, <<>> }

Quote(st) == IF st = "json" THEN <<"\"">> ELSE <<"'">>
Separator(st) == IF st = "compact" THEN <<",">> ELSE <<",", " ">>

RECURSIVE JoinItems(_, _)
JoinItems(its, st) ==
    IF its = <<>> THEN <<>>
    ELSE Quote(st) \o Head(its) \o Quote(st)
         \o (IF Len(its) > 1 THEN Separator(st) ELSE <<>>)
         \o JoinItems(Tail(its), st)

Render(its, st) == <<"[">> \o JoinItems(its, st) \o <<"]">>

InitParse ==
    /\ \/ /\ items \in UNION {[1..n -> JourneyItems] : n \in 0..MaxItems}
          /\ style \in ListStyles
          /\ journey = Render(items, style)
       \/ /\ items = <<>>
          /\ style = "text"
          /\ journey \in FreeTexts
    /\ url_list = <<>>
    /\ parse_pc = "call"
    /\ IdleCat /\ IdleNorm /\ IdleMap /\ IdleApp

\* lines 84-92
ParseJourney ==
    /\ parse_pc = "call"
    /\ url_list' = parse_journey(journey)
    /\ parse_pc' = "done"
    /\ UNCHANGED <<items, style, journey, catVars, normVars, mapVars, appVars>>

NextParse == ParseJourney

SpecParse == InitParse /\ [][NextParse]_vars

\* the entries of a list that are full URLs, in order
FullItemsOf(its) == SelectSeq(its, LAMBDA x : x \in FullUrlItems)

\* the text holds a full URL: http:// or https:// and one more character
\* that is no whitespace, comma or closing bracket
HoldsFullUrl(text) ==
    \E p \in 1..Len(text) :
        \E prefix \in {<<"h", "t", "t", "p", ":", "/", "/">>, <<"h", "t", "t", "p", "s", ":", "/", "/">>} :
            /\ At(text, p, prefix)
            /\ p + Len(prefix) <= Len(text)
            /\ text[p + Len(prefix)] \notin Whitespace \cup {",", "]"}

\* C5: for a journey written as a bracketed, comma-separated list of
\* quoted full URLs, parse_journey returns exactly those URLs, in order,
\* with no quote or bracket attached.
C5_QuotedUrlsExact ==
    (/\ parse_pc = "done"
     /\ style \in ListStyles
     /\ items # <<>>
     /\ \A k \in 1..Len(items) : items[k] \in FullUrlItems)
        => url_list = items

\* C9: with a full URL in the text the result is exactly the full-URL
\* matches, in order, and the bare paths of the text are left out; without
\* one it is exactly the path matches, in order; it is empty when neither
\* pattern matches.  parse("['/a','/b']") is ["/a","/b"] and
\* parse("no urls here") is [].
C9_PathsOnlyWithoutFullUrl ==
    parse_pc = "done" =>
        /\ HoldsFullUrl(journey) => url_list = FindAll(FULL_URL, journey, 1)
        /\ ~HoldsFullUrl(journey) => url_list = FindAll(PATH_ONLY, journey, 1)
        /\ (style \in ListStyles /\ FullItemsOf(items) # <<>>) =>
              /\ Len(url_list) = Len(FullItemsOf(items))
              /\ \A k \in 1..Len(url_list) : At(url_list[k], 1, FullItemsOf(items)[k])
        /\ (style \in ListStyles /\ FullItemsOf(items) = <<>>) => url_list = items
        /\ journey = <<"[", "'", "/", "a", "'", ",", "'", "/", "b", "'", "]">> => url_list = << <<"/", "a">>, <<"/", "b">> >>
        /\ journey = <<"n", "o", " ", "u", "r", "l", "s", " ", "h", "e", "r", "e">> => url_list = <<>>

\* C9 witness: a list with a full URL and a bare path has been parsed, and
\* only the full URL was extracted.
C9_Witness ==
    /\ parse_pc = "done"
    /\ style \in ListStyles
    /\ \E k \in 1..Len(items) : items[k] \in BarePathItems
    /\ Len(FullItemsOf(items)) = 1
    /\ Len(url_list) = 1

-----------------------------------------------------------------------------
(* main(), lines 213-214: the category map built from the rows of          *)
(* mapping.csv.  A dict is the sequence of its <<key, value>> entries in   *)
(* insertion order.                                                        *)

\* the greatest number of rows of the mapping resource
MaxRows == 3

MappingPatterns == { <<"/", "a">>, <<"/", "A">>, <<"/", "b">> }
MappingTypes == {"BUY", "SELL", "GENERAL"}

\* d[k] = v: a key that is present keeps its place and takes the new value,
\* a new key is added at the end
DictSet(d, k, v) ==
    IF \E n \in 1..Len(d) : d[n][1] = k
    THEN [n \in 1..Len(d) |-> IF d[n][1] = k THEN <<k, v>> ELSE d[n]]
    ELSE Append(d, <<k, v>>)

\* dict(zip(category_df['URL'], category_df['TYPE'])), the rows from n on
RECURSIVE DictOfRows(_, _, _)
DictOfRows(d, rows, n) ==
    IF n > Len(rows) THEN d
    ELSE DictOfRows(DictSet(d, rows[n][1], rows[n][2]), rows, n + 1)

\* {k.lower(): v for k, v in category_map.items()}, the entries from n on
RECURSIVE LowerKeysOf(_, _, _)
LowerKeysOf(d, entries, n) ==
    IF n > Len(entries) THEN d
    ELSE LowerKeysOf(DictSet(d, LowerStr(entries[n][1]), entries[n][2]), entries, n + 1)

InitMapping ==
    /\ mapping_rows \in UNION {[1..n -> MappingPatterns \X MappingTypes] : n \in 0..MaxRows}
    /\ zipped_map = <<>>
    /\ lowered_map = <<>>
    /\ map_pc = "read"
    /\ IdleCat /\ IdleNorm /\ IdleParse /\ IdleApp

\* line 213
ZipRows ==
    /\ map_pc = "read"
    /\ zipped_map' = DictOfRows(<<>>, mapping_rows, 1)
    /\ map_pc' = "zipped"
    /\ UNCHANGED <<mapping_rows, lowered_map, catVars, normVars, parseVars, appVars>>

\* line 214
LowerKeys ==
    /\ map_pc = "zipped"
    /\ lowered_map' = LowerKeysOf(<<>>, zipped_map, 1)
    /\ map_pc' = "lowered"
    /\ UNCHANGED <<mapping_rows, zipped_map, catVars, normVars, parseVars, appVars>>

NextMapping == ZipRows \/ LowerKeys

SpecMapping == InitMapping /\ [][NextMapping]_vars

\* the last row whose pattern, lower-cased, is p
LastRowOf(p) ==
    CHOOSE r \in 1..Len(mapping_rows) :
        /\ LowerStr(mapping_rows[r][1]) = p
        /\ \A q \in (r + 1)..Len(mapping_rows) : LowerStr(mapping_rows[q][1]) # p

\* C7: the category map has a single key for each lower-cased pattern of
\* the rows, and its category is that of the last row with that pattern,
\* whether or not the rows' patterns are equal before lower-casing.
C7_LastRowWins ==
    map_pc = "lowered" =>
        \A r \in 1..Len(mapping_rows) :
            LET p == LowerStr(mapping_rows[r][1])
            IN  /\ Cardinality({n \in 1..Len(lowered_map) : lowered_map[n][1] = p}) = 1
                /\ \A n \in 1..Len(lowered_map) :
                      lowered_map[n][1] = p
                          => lowered_map[n][2] = mapping_rows[LastRowOf(p)][2]

-----------------------------------------------------------------------------
(* main(): st.session_state and the page's widgets over the reruns of the  *)
(* script.  A DataFrame is [none |-> FALSE, rows |-> f], f a function from *)
(* index labels to rows; None is NoData.  A row is its TYPE and the rest   *)
(* of its columns, which no step edits and which `lead` stands for.        *)

NoData == [none |-> TRUE, rows |-> <<>>]
Frame(f) == [none |-> FALSE, rows |-> f]

\* the CSV files a user uploads: their journey column, if they have one
FileContents ==
    [ a_csv |-> [has_journey |-> TRUE,
                 journeys |-> << <<"[", "'", "/", "a", "'", ",", "'", "/", "b", "'", "]">>, <<"n", "o", " ", "u", "r", "l", "s", " ", "h", "e", "r", "e">> >>],
      b_csv |-> [has_journey |-> TRUE,
                 journeys |-> << <<"[", "'", "/", "C", "O", "N", "D", "O", "-", "X", "/", "u", "n", "i", "t", "1", "'", "]">> >>],
      x_csv |-> [has_journey |-> FALSE, journeys |-> << >>] ]

Files == DOMAIN FileContents

\* the rows of mapping.csv in the application directory
MappingCsv ==
    << <<<<"C", "o", "n", "d", "o", "-", "X">>, "Condo: Strada">>, <<<<"/", "a">>, "BUY">>, <<<<"/", "b">>, "SELL">> >>

\* the categories a user picks in the TYPE column of the editor
EditChoices == {"BUY", "SELL"}

\* categorize_leads over the whole journey column (line 216)
RECURSIVE CategorizeFrom(_, _, _, _)
CategorizeFrom(journeys, n, priority, map) ==
    IF n > Len(journeys) THEN [raised |-> FALSE, categories |-> <<>>]
    ELSE Bind(ClassifyRecord({}, journeys[n], priority, map), LAMBDA r :
            Bind(CategorizeFrom(journeys, n + 1, priority, map), LAMBDA rest :
                IF r.raised \/ rest.raised
                THEN [raised |-> TRUE, categories |-> <<>>]
                ELSE [raised |-> FALSE, categories |-> <<r.category>> \o rest.categories]))

\* lines 211-223: the uploaded file, categorized
CategorizedFile(f) ==
    Bind(LowerKeysOf(<<>>, DictOfRows(<<>>, MappingCsv, 1), 1), LAMBDA map :
        Bind(CategorizeFrom(FileContents[f].journeys, 1, all_lead_categories_options, map),
             LAMBDA res :
                [raised |-> res.raised,
                 data |-> Frame([i \in 1..Len(res.categories) |->
                                    [lead |-> <<f, i>>, TYPE |-> res.categories[i]]])]))

\* every file of the model, categorized
CategorizedFiles == [f \in Files |-> CategorizedFile(f)]

\* save_changes_callback, lines 140-153, on the session state ss
save_changes_callback(ss) ==
    IF ss.pending_changes.none
    THEN ss
    ELSE LET p == ss.pending_changes.rows
             m == ss.master_data.rows
             saved ==
                 IF ss.current_filter_value # "All"
                 THEN Frame([i \in DOMAIN m \cup DOMAIN p |->
                                IF i \in DOMAIN p THEN p[i] ELSE m[i]])
                 ELSE ss.pending_changes
         IN  [ss EXCEPT !.master_data = saved,
                        !.pending_changes = NoData]

\* a widget that the last run did not render has no state
Hidden == [shown |-> FALSE, key |-> <<>>, value |-> <<>>]

\* ['All'] + sorted(display_data['TYPE'].unique()): the options are fixed by their set
FilterOptions(data) == {"All"} \cup {data.rows[i].TYPE : i \in DOMAIN data.rows}

\* lines 252-255
Filtered(data, selected) ==
    IF selected = "All" THEN data.rows
    ELSE [i \in {j \in DOMAIN data.rows : data.rows[j].TYPE = selected} |-> data.rows[i]]

\* the DataFrame st.data_editor returns: the data it was given with the
\* user's edits of TYPE
Edited(data, edits) ==
    [i \in DOMAIN data |->
        IF i \in DOMAIN edits THEN [data[i] EXCEPT !.TYPE = edits[i]] ELSE data[i]]

\* the script returns before it renders the widgets
Stopped(s) == [ss |-> s, selectbox |-> Hidden, editor |-> Hidden]

\* A widget keeps its state from the last run while the arguments that
\* identify it are the same: the options of the select box (lines 240-246),
SelectedFilter(selectbox, options) ==
    IF selectbox.shown /\ selectbox.key = options THEN selectbox.value ELSE "All"

\* and the data given to the editor (lines 260-272)
EditorEdits(editor, filtered_data) ==
    IF editor.shown /\ editor.key = filtered_data THEN editor.value ELSE <<>>

\* lines 249 and 274-276: the filter is recorded, and the editor's data is
\* kept as pending_changes if it differs from what the editor was given
RenderEditor(ss, options, selected, filtered_data, edits) ==
    [ss |-> [ss EXCEPT
                !.current_filter_value = selected,
                !.pending_changes =
                    IF Edited(filtered_data, edits) # filtered_data
                    THEN Frame(Edited(filtered_data, edits))
                    ELSE @],
     selectbox |-> [shown |-> TRUE, key |-> options, value |-> selected],
     editor |-> [shown |-> TRUE, key |-> filtered_data, value |-> edits]]

\* lines 252-272
RenderFilter(ss, options, selected, editor) ==
    Bind(Filtered(ss.master_data, selected), LAMBDA filtered_data :
        RenderEditor(ss, options, selected, filtered_data,
                     EditorEdits(editor, filtered_data)))

\* lines 226-246
ShowData(ss, selectbox, editor) ==
    IF ss.master_data.none
    THEN Stopped(ss)
    ELSE Bind(FilterOptions(ss.master_data), LAMBDA options :
            RenderFilter(ss, options, SelectedFilter(selectbox, options), editor))

\* lines 186-223: a new file; file_hash is set before the checks that return
LoadFile(hashed, file, selectbox, editor) ==
    IF ~FileContents[file].has_journey
    THEN Stopped(hashed)
    ELSE Bind(CategorizedFiles[file], LAMBDA categorized :
            IF categorized.raised
            THEN Stopped(hashed)
            ELSE ShowData([hashed EXCEPT !.master_data = categorized.data],
                          selectbox, editor))

\* One run of main() from line 178 on, without a click on the save button:
\* the session state and the widgets after the run
RunMain(ss, file, selectbox, editor) ==
    IF file = "None" THEN Stopped(ss)
    ELSE IF ss.file_hash # file
    THEN LoadFile([ss EXCEPT !.file_hash = file], file, selectbox, editor)
    ELSE ShowData(ss, selectbox, editor)

Session ==
    [master_data |-> master_data, file_hash |-> file_hash,
     pending_changes |-> pending_changes, current_filter_value |-> current_filter_value]

\* the session state and the widgets become those of the run's result
Becomes(r) ==
    /\ master_data' = r.ss.master_data
    /\ file_hash' = r.ss.file_hash
    /\ pending_changes' = r.ss.pending_changes
    /\ current_filter_value' = r.ss.current_filter_value
    /\ selectbox_state' = r.selectbox
    /\ editor_state' = r.editor

\* lines 166-176: the first run of a session, no file uploaded yet
InitSession ==
    /\ master_data = NoData
    /\ file_hash = "None"
    /\ pending_changes = NoData
    /\ current_filter_value = "All"
    /\ leads_file = "None"
    /\ selectbox_state = Hidden
    /\ editor_state = Hidden
    /\ IdleCat /\ IdleNorm /\ IdleParse /\ IdleMap

\* the user uploads a file (or another one): the script reruns
UploadFile ==
    \E f \in Files :
        /\ f # leads_file
        /\ leads_file' = f
        /\ Becomes(RunMain(Session, f, selectbox_state, editor_state))
        /\ UNCHANGED <<catVars, normVars, parseVars, mapVars>>

\* the user picks another filter: on_change runs save_changes_callback,
\* then the script reruns
ChangeFilter ==
    /\ selectbox_state.shown
    /\ \E v \in selectbox_state.key :
          /\ v # selectbox_state.value
          /\ \E saved \in {save_changes_callback(Session)} :
                Becomes(RunMain(saved, leads_file,
                                [selectbox_state EXCEPT !.value = v], editor_state))
    /\ UNCHANGED <<leads_file, catVars, normVars, parseVars, mapVars>>

\* the user sets the TYPE of one row in the editor: the script reruns
EditCell ==
    /\ editor_state.shown
    /\ \E i \in DOMAIN editor_state.key, t \in EditChoices :
          /\ Edited(editor_state.key, editor_state.value)[i].TYPE # t
          /\ LET edits == [j \in DOMAIN editor_state.value \cup {i} |->
                              IF j = i THEN t ELSE editor_state.value[j]]
             IN  Becomes(RunMain(Session, leads_file, selectbox_state,
                                 [editor_state EXCEPT !.value = edits]))
    /\ UNCHANGED <<leads_file, catVars, normVars, parseVars, mapVars>>

\* the user clicks "Save Changes Now", which is on the page while the
\* editor's data differs from what it was given: the script runs to line
\* 281, saves, and st.rerun() runs it again
ClickSave ==
    /\ editor_state.shown
    /\ Edited(editor_state.key, editor_state.value) # editor_state.key
    /\ \E first \in {RunMain(Session, leads_file, selectbox_state, editor_state)} :
          \E saved \in {save_changes_callback(first.ss)} :
              Becomes(RunMain(saved, leads_file, first.selectbox, first.editor))
    /\ UNCHANGED <<leads_file, catVars, normVars, parseVars, mapVars>>

NextSession == UploadFile \/ ChangeFilter \/ EditCell \/ ClickSave

SpecSession == InitSession /\ [][NextSession]_vars

\* the leads whose rows a DataFrame holds
LeadsOf(data) == {data.rows[i].lead : i \in DOMAIN data.rows}

\* C10: a step that saves (master_data changes though no new file was
\* categorized) writes only rows of the leads master_data holds, those of
\* the file that is loaded, never rows captured from an earlier file, and
\* leaves pending_changes None.
C10_SavesOnlyCurrentFile ==
    [][(file_hash' = file_hash /\ ~master_data.none /\ master_data' # master_data)
          => (LeadsOf(master_data') = LeadsOf(master_data) /\ pending_changes'.none)]_vars

=============================================================================
